---- MODULE Spec2Model ----
(***************************************************************************)
(* Model of tsp_kurye.py: the distance model (haversine,                   *)
(* karayolu_mesafesi, mesafe_matrisi_olustur) and the tour solver          *)
(* (tsp_coz, which drives the OR-Tools routing solver).                    *)
(*                                                                         *)
(* Floats are modelled as tagged values: a finite fixed-point number, NaN, *)
(* an infinity, or "exc" for a Python exception raised while the value was *)
(* being computed.  Units of the finite values:                            *)
(*   degrees  - micro-degrees (1e-6 degree)                                *)
(*   radians  - nano-radians  (1e-9 rad)                                   *)
(*   lengths  - 1e-5 km (centimetres)                                      *)
(* The coordinates range over the equator and the north pole, where the    *)
(* haversine terms combine without trigonometric addition (see HavAdd).    *)
(***************************************************************************)
EXTENDS Integers, Sequences, FiniteSets, TLC

VARIABLES
    \* mesafe_matrisi_olustur
    koordinatlar,   \* its argument: sequence of <<lat, lon>>
    matris,         \* the matrix it returned (<<>> until then)
    mpc,            \* "idle" | "call" | "returned" | "raised"
    merr,           \* exception type that left it, or "none"
    \* tsp_coz
    mesafe_matrisi, \* its argument: [node -> [node -> cost]], nodes 0..n-1
    pc,             \* "idle" | "call" | "construct" | "improve" |
                    \* "returned" | "raised" | "crashed"
    partial,        \* path built so far by the first-solution heuristic
    current,        \* tour the local search is at (sequence of nodes from the depot)
    penalties,      \* guided-local-search penalty of each arc <<index, next index>>
    best,           \* best tour found so far by true cost
    held,           \* history: every tour the search has been at
    clock,          \* seconds since SolveWithParameters was entered
    steps,          \* search steps taken in this solve
    solution,       \* assignment returned by SolveWithParameters (<<>> = None)
    rota,           \* returned route
    toplam_mesafe,  \* returned objective
    err,            \* "none" | "RuntimeError" | a fatal signal
    run,            \* number of the current tsp_coz call
    prev,           \* outcome of the previous tsp_coz call
    optima          \* <<optimal cost without the last point, with it>>

mvars == <<koordinatlar, matris, mpc, merr>>
svars == <<mesafe_matrisi, pc, partial, current, penalties, best, held, clock,
           steps, solution, rota, toplam_mesafe, err, run, prev>>
vars == <<mvars, svars, optima>>

----------------------------------------------------------------------------
(* Bounds *)
MaxPoints == 2      \* longest coordinate list given to mesafe_matrisi_olustur

----------------------------------------------------------------------------
(* Float values *)
Fin(x) == [k |-> "fin", v |-> x]
NaN    == [k |-> "nan", v |-> 0]
PInf   == [k |-> "inf", v |-> 1]
NInf   == [k |-> "inf", v |-> -1]
Exc(e) == [k |-> "exc", v |-> e]     \* e: 1 = ValueError, 2 = OverflowError

IsFinite(x) == x.k = "fin"
Abs(x) == IF x < 0 THEN -x ELSE x
Max(x, y) == IF x >= y THEN x ELSE y

MicroDegQuarter == 90 * 1000000                \* 90 degrees, in micro-degrees
HalfPi == 1570796 * 1000 + 327                 \* pi/2, in nano-radians

\* math.radians: micro-degrees -> nano-radians (pi/180 = 0.017453...);
\* the quarter turns are converted apart from the remainder to stay within
\* TLC's integers.
Radians(x) ==
    IF x.k # "fin" THEN x
    ELSE LET s == IF x.v < 0 THEN -1 ELSE 1
             a == Abs(x.v)
         IN Fin(s * ((a \div MicroDegQuarter) * HalfPi
                     + ((a % MicroDegQuarter) * 17453) \div 1000))

\* float subtraction  a - b
FSub(a, b) ==
    IF a.k = "exc" THEN a
    ELSE IF b.k = "exc" THEN b
    ELSE IF a.k = "nan" \/ b.k = "nan" THEN NaN
    ELSE IF a.k = "inf" /\ b.k = "inf" THEN (IF a.v = b.v THEN NaN ELSE a)
    ELSE IF a.k = "inf" THEN a
    ELSE IF b.k = "inf" THEN [k |-> "inf", v |-> -b.v]
    ELSE Fin(a.v - b.v)

\* math.sin(d / 2) ** 2.  The result, a haversine value in [0, 1], is kept as
\* the angle in [0, pi] whose haversine it is: sin^2 is even, so that angle
\* is |d|.  math.sin raises ValueError (math domain error) on an infinity.
SinHalfSq(d) ==
    IF d.k = "exc" \/ d.k = "nan" THEN d
    ELSE IF d.k = "inf" THEN Exc(1)
    ELSE Fin(Abs(d.v))

\* math.cos on the latitudes of the model: 1 on the equator, 0 (6e-17 in
\* floats) at a pole.  math.cos raises ValueError on an infinity.
Cos(x) ==
    IF x.k = "exc" \/ x.k = "nan" THEN x
    ELSE IF x.k = "inf" THEN Exc(1)
    ELSE Fin(IF Abs(x.v) = HalfPi THEN 0 ELSE 1)

\* cos(lat1) * cos(lat2) * h  for a haversine value h kept as its angle
HavScale(c1, c2, h) ==
    IF c1.k = "exc" THEN c1
    ELSE IF c2.k = "exc" THEN c2
    ELSE IF h.k = "exc" THEN h
    ELSE IF c1.k = "nan" \/ c2.k = "nan" \/ h.k = "nan" THEN NaN
    ELSE Fin(IF c1.v * c2.v = 0 THEN 0 ELSE h.v)

\* h1 + h2 of two haversine values kept as angles.  With every point on the
\* equator or at the pole one of the two summands is zero; where both are
\* present the smaller one is below the resolution of the larger.
HavAdd(h1, h2) ==
    IF h1.k = "exc" THEN h1
    ELSE IF h2.k = "exc" THEN h2
    ELSE IF h1.k = "nan" \/ h2.k = "nan" THEN NaN
    ELSE Fin(IF h1.v = 0 THEN h2.v ELSE IF h2.v = 0 THEN h1.v ELSE Max(h1.v, h2.v))

\* 2 * math.asin(math.sqrt(a)): the central angle, which is the angle the
\* haversine value a is kept as.
ArcHav(a) == a

R == 6371    \* Earth radius, km

\* R * c: nano-radians -> 1e-5 km, i.e. floor(R * c / 10^4)
RTimes(c) ==
    IF c.k # "fin" THEN c
    ELSE Fin(R * (c.v \div 10000) + (R * (c.v % 10000)) \div 10000)

haversine_dlon_only(coord1, coord2) ==
    LET lat1 == Radians(coord1[1])
        lon1 == Radians(coord1[2])
        lat2 == Radians(coord2[1])
        lon2 == Radians(coord2[2])
        dlat == FSub(lat2, lat1)
        dlon == lon2
        a    == HavAdd(SinHalfSq(dlat), HavScale(Cos(lat1), Cos(lat2), SinHalfSq(dlon)))
        c    == ArcHav(a)
    IN RTimes(c)

haversine(coord1, coord2) ==
    LET lat1 == Radians(coord1[1])
        lon1 == Radians(coord1[2])
        lat2 == Radians(coord2[1])
        lon2 == Radians(coord2[2])
        dlat == FSub(lat2, lat1)
        dlon == FSub(lon2, lon1)
        a    == HavAdd(SinHalfSq(dlat), HavScale(Cos(lat1), Cos(lat2), SinHalfSq(dlon)))
        c    == ArcHav(a)
    IN RTimes(c)

\* kus_ucusu_km * 1.35, i.e. floor(x * 135 / 100) without overflow
karayolu_mesafesi(kus_ucusu_km) ==
    IF kus_ucusu_km.k # "fin" THEN kus_ucusu_km
    ELSE LET x == kus_ucusu_km.v
         IN Fin(x + (x \div 100) * 35 + ((x % 100) * 35) \div 100)

\* int(karayolu * 1000): km -> metres, truncated toward zero.  A length is in
\* units of 1e-5 km, so * 1000 followed by truncation is \div 100.
\* int() raises ValueError on NaN and OverflowError on an infinity.
IntMetres_round(karayolu) ==
    IF karayolu.k = "exc" THEN karayolu
    ELSE IF karayolu.k = "nan" THEN Exc(1)
    ELSE IF karayolu.k = "inf" THEN Exc(2)
    ELSE Fin((karayolu.v + 99) \div 100)

IntMetres(karayolu) ==
    IF karayolu.k = "exc" THEN karayolu
    ELSE IF karayolu.k = "nan" THEN Exc(1)
    ELSE IF karayolu.k = "inf" THEN Exc(2)
    ELSE Fin(karayolu.v \div 100)

\* one cell of the matrix, lines 142-147
Cell(koord, i, j) ==
    IF i = j THEN Fin(0)
    ELSE IntMetres(karayolu_mesafesi(haversine(koord[i], koord[j])))

ErrName(e) == IF e = 1 THEN "ValueError" ELSE "OverflowError"

\* The cells in the order the two loops compute them
CellOrder(n) == [p \in 1..(n * n) |-> <<((p - 1) \div n) + 1, ((p - 1) % n) + 1>>]

\* Position of the first cell whose computation raises, 0 if none does
FirstRaise(koord) ==
    LET n == Len(koord)
        bad == {p \in 1..(n * n) :
                   Cell(koord, CellOrder(n)[p][1], CellOrder(n)[p][2]).k = "exc"}
    IN IF bad = {} THEN 0 ELSE CHOOSE p \in bad : \A q \in bad : p <= q

\* mesafe_matrisi_olustur(koordinatlar)
MesafeMatrisiOlustur ==
    /\ mpc = "call"
    /\ LET n == Len(koordinatlar)
           p == FirstRaise(koordinatlar)
       IN IF p = 0
          THEN /\ matris' = [i \in 1..n |-> [j \in 1..n |-> Cell(koordinatlar, i, j).v]]
               /\ mpc' = "returned"
               /\ merr' = "none"
          ELSE /\ matris' = <<>>
               /\ mpc' = "raised"
               /\ merr' = ErrName(Cell(koordinatlar, CellOrder(n)[p][1],
                                       CellOrder(n)[p][2]).v)
    /\ UNCHANGED <<koordinatlar, svars, optima>>

\* Coordinates the model draws from: the equator and the north pole,
\* longitudes a few micro-degrees apart, and the non-finite floats.
LatValues == {Fin(0), Fin(MicroDegQuarter), NaN, PInf}
LonValues == {Fin(0), Fin(4), Fin(7), Fin(13), NaN, PInf, NInf}
Coords == LatValues \X LonValues

CoordLists == UNION {[1..n -> Coords] : n \in 0..MaxPoints}

----------------------------------------------------------------------------
(* tsp_coz and the routing solver it drives *)

MaxN == 4          \* largest number of points of a cost matrix
MaxCost == 2       \* arc costs are 10, ..., 9 + MaxCost
MaxSteps == 9      \* search steps modelled per solve
TickSeconds == 5   \* granularity of the wall clock

TimeLimit == 10    \* search_params.time_limit.FromSeconds(10)

CostValues == {9 + k : k \in 1..MaxCost}

NodePairs(n) == {p \in (0..(n - 1)) \X (0..(n - 1)) : p[1] < p[2]}

\* Cost matrices: zero diagonal, symmetric, positive off the diagonal
MatrixOf(n, f) ==
    [i \in 0..(n - 1) |-> [j \in 0..(n - 1) |->
        IF i = j THEN 0
        ELSE IF i < j THEN f[<<i, j>>] ELSE f[<<j, i>>]]]

RECURSIVE SumOver(_, _)
SumOver(S, f) ==
    IF S = {} THEN 0
    ELSE LET x == CHOOSE y \in S : TRUE IN f[x] + SumOver(S \ {x}, f)

RECURSIVE SumSeq(_)
SumSeq(s) == IF s = <<>> THEN 0 ELSE Head(s) + SumSeq(Tail(s))

Size(M) == Cardinality(DOMAIN M)      \* n = len(mesafe_matrisi)

\* RoutingIndexManager(n, 1, 0): the nodes keep their numbers as indices,
\* the vehicle starts at index 0 and ends at the extra index n, which is
\* the depot again.
IndexToNode(n, index) == IF index = n THEN 0 ELSE index

mesafe_callback_same_node(M, from_index, to_index) ==
    LET from_node == IndexToNode(Size(M), from_index)
        to_node   == IndexToNode(Size(M), to_index)
    IN M[from_node][from_node]

mesafe_callback_negated(M, from_index, to_index) ==
    LET from_node == IndexToNode(Size(M), from_index)
        to_node   == IndexToNode(Size(M), to_index)
    IN 0 - M[from_node][to_node]

mesafe_callback(M, from_index, to_index) ==
    LET from_node == IndexToNode(Size(M), from_index)
        to_node   == IndexToNode(Size(M), to_index)
    IN M[from_node][to_node]

\* The assignment of the NextVars that a tour stands for: the tour's k-th
\* node is followed by its (k+1)-th, the last one by the end index n.
NextVars(tour) ==
    LET n == Len(tour)
    IN [i \in 0..(n - 1) |->
          LET k == CHOOSE q \in 1..n : tour[q] = i
          IN IF k = n THEN n ELSE tour[k + 1]]

\* solution.ObjectiveValue(): the arc cost evaluator summed over the route;
\* the penalties are not part of it
ObjectiveValue(M, nxt) ==
    LET ArcCost == [i \in DOMAIN nxt |-> mesafe_callback(M, i, nxt[i])]
    IN SumOver(DOMAIN nxt, ArcCost)

\* The arcs <<index, next index>> a solve can use
Arcs(n) == (0..(n - 1)) \X (0..n)

InitialPenalties_leaked(n) ==
    IF DOMAIN penalties = Arcs(n) THEN penalties ELSE [a \in Arcs(n) |-> 0]

\* routing = pywrapcp.RoutingModel(manager): every call of tsp_coz builds
\* its own model, whose search starts without penalties
InitialPenalties(n) == [a \in Arcs(n) |-> 0]

\* Cost the guided local search evaluates moves with: each arc's cost plus
\* 0.1 * penalty * cost
PenalizedValue(M, pen, nxt) ==
    LET ArcCost == [i \in DOMAIN nxt |->
                       mesafe_callback(M, i, nxt[i])
                       + (pen[<<i, nxt[i]>>] * mesafe_callback(M, i, nxt[i])) \div 10]
    IN SumOver(DOMAIN nxt, ArcCost)

TourCost(M, tour) == ObjectiveValue(M, NextVars(tour))

\* PATH_CHEAPEST_ARC: the unvisited node with the cheapest arc from the end
\* of the path, the lowest index among equals
CheapestArc(M, path) ==
    LET last == path[Len(path)]
        free == (DOMAIN M) \ {path[k] : k \in 1..Len(path)}
        cheapest == {j \in free : \A h \in free :
                        mesafe_callback(M, last, j) <= mesafe_callback(M, last, h)}
    IN CHOOSE j \in cheapest : \A h \in cheapest : j <= h

\* 2-opt: the tour with positions i..j reversed
TwoOpt(tour, i, j) ==
    [k \in 1..Len(tour) |-> IF k >= i /\ k <= j THEN tour[i + j - k] ELSE tour[k]]

\* The 2-opt moves of a tour of n nodes; the depot stays in front
Moves(n) == {m \in (2..n) \X (2..n) : m[1] < m[2]}

Before(m1, m2) == m1[1] < m2[1] \/ (m1[1] = m2[1] /\ m1[2] <= m2[2])

Improving(M, pen, tour) ==
    {m \in Moves(Len(tour)) :
        PenalizedValue(M, pen, NextVars(TwoOpt(tour, m[1], m[2])))
            < PenalizedValue(M, pen, NextVars(tour))}

\* first improving move in scan order
FirstImproving(M, pen, tour) ==
    LET imp == Improving(M, pen, tour)
    IN CHOOSE m \in imp : \A o \in imp : Before(m, o)

\* Arcs of the tour with the highest utility cost / (1 + penalty)
MaxUtilityArcs(M, pen, tour) ==
    LET nxt == NextVars(tour)
        arcs == {<<i, nxt[i]>> : i \in DOMAIN nxt}
        U(a, b) == mesafe_callback(M, a[1], a[2]) * (1 + pen[b])
    IN {a \in arcs : \A b \in arcs : U(a, b) >= U(b, a)}

BestUpdate_latest(M, old, new) == new

\* the solver keeps the tour of lowest true cost
BestUpdate(M, old, new) ==
    IF TourCost(M, new) < TourCost(M, old) THEN new ELSE old

RECURSIVE RotaFrom(_, _, _, _)
RotaFrom(n, nxt, index, acc) ==
    IF index = n THEN acc
    ELSE RotaFrom(n, nxt, nxt[index], Append(acc, IndexToNode(n, index)))

ReadRota_no_return(n, nxt) == RotaFrom(n, nxt, 0, <<>>)

\* lines 194-200: follow the NextVars from routing.Start(0) to the end index
\* and append the node of the end index
ReadRota(n, nxt) == Append(RotaFrom(n, nxt, 0, <<>>), IndexToNode(n, n))

NoOutcome == [rota |-> <<>>, toplam |-> 0, pc |-> "idle", steps |-> 0]

\* Signals that end the process when the index manager is built over an
\* empty node set (depot 0 is not a node of it)
Fatal == {"SIGABRT", "SIGSEGV"}

\* lines 163-186: build the index manager, the model and the parameters
TspCozBegin ==
    /\ pc = "call"
    /\ IF Size(mesafe_matrisi) = 0
       THEN /\ pc' = "crashed"
            /\ err' \in Fatal
            /\ UNCHANGED <<partial, penalties, clock, steps>>
       ELSE /\ pc' = "construct"
            /\ partial' = <<0>>
            /\ penalties' = InitialPenalties(Size(mesafe_matrisi))
            /\ clock' = 0
            /\ steps' = 0
            /\ err' = "none"
    /\ UNCHANGED <<mesafe_matrisi, current, best, held, solution, rota,
                   toplam_mesafe, run, prev, mvars, optima>>

\* the wall clock stands still: no time limit ever comes
Tick_stuck ==
    /\ pc \in {"construct", "improve"}
    /\ clock < TimeLimit
    /\ UNCHANGED vars

\* the wall clock advances while the search runs
Tick ==
    /\ pc \in {"construct", "improve"}
    /\ clock < TimeLimit
    /\ clock' = clock + TickSeconds
    /\ UNCHANGED <<mesafe_matrisi, pc, partial, current, penalties, best, held,
                   steps, solution, rota, toplam_mesafe, err, run, prev, mvars, optima>>

\* first solution: extend the path by its cheapest arc
ConstructStep ==
    /\ pc = "construct"
    /\ clock < TimeLimit
    /\ Len(partial) < Size(mesafe_matrisi)
    /\ partial' = Append(partial, CheapestArc(mesafe_matrisi, partial))
    /\ steps' = steps + 1
    /\ UNCHANGED <<mesafe_matrisi, pc, current, penalties, best, held, clock,
                   solution, rota, toplam_mesafe, err, run, prev, mvars, optima>>

\* first solution: the path covers every node and is closed at the depot
FirstSolution ==
    /\ pc = "construct"
    /\ clock < TimeLimit
    /\ Len(partial) = Size(mesafe_matrisi)
    /\ current' = partial
    /\ best' = partial
    /\ held' = {partial}
    /\ pc' = "improve"
    /\ steps' = steps + 1
    /\ UNCHANGED <<mesafe_matrisi, partial, penalties, clock, solution, rota,
                   toplam_mesafe, err, run, prev, mvars, optima>>

\* local search: accept the first move that lowers the penalized cost
ImproveMove ==
    /\ pc = "improve"
    /\ clock < TimeLimit
    /\ steps < MaxSteps
    /\ Improving(mesafe_matrisi, penalties, current) # {}
    /\ LET m == FirstImproving(mesafe_matrisi, penalties, current)
           new == TwoOpt(current, m[1], m[2])
       IN /\ current' = new
          /\ best' = BestUpdate(mesafe_matrisi, best, new)
          /\ held' = held \cup {new}
    /\ steps' = steps + 1
    /\ UNCHANGED <<mesafe_matrisi, pc, partial, penalties, clock, solution,
                   rota, toplam_mesafe, err, run, prev, mvars, optima>>

\* local optimum under the current penalties: penalize its worst arcs
Penalize ==
    /\ pc = "improve"
    /\ clock < TimeLimit
    /\ steps < MaxSteps
    /\ Improving(mesafe_matrisi, penalties, current) = {}
    /\ LET worst == MaxUtilityArcs(mesafe_matrisi, penalties, current)
       IN penalties' = [a \in DOMAIN penalties |->
                           IF a \in worst THEN penalties[a] + 1 ELSE penalties[a]]
    /\ steps' = steps + 1
    /\ UNCHANGED <<mesafe_matrisi, pc, partial, current, best, held, clock,
                   solution, rota, toplam_mesafe, err, run, prev, mvars, optima>>

\* lines 189-192: the limit is reached before a first solution exists,
\* SolveWithParameters returns None and tsp_coz raises
RaiseNoSolution ==
    /\ pc = "construct"
    /\ clock >= TimeLimit
    /\ solution' = <<>>
    /\ pc' = "raised"
    /\ err' = "RuntimeError"
    /\ UNCHANGED <<mesafe_matrisi, partial, current, penalties, best, held,
                   clock, steps, rota, toplam_mesafe, run, prev, mvars, optima>>

\* lines 189-203: the limit is reached during the local search,
\* SolveWithParameters returns the best assignment and tsp_coz reads it
ReturnRota ==
    /\ pc = "improve"
    /\ clock >= TimeLimit
    /\ LET nxt == NextVars(best)
       IN /\ solution' = nxt
          /\ rota' = ReadRota(Size(mesafe_matrisi), nxt)
          /\ toplam_mesafe' = ObjectiveValue(mesafe_matrisi, nxt)
    /\ pc' = "returned"
    /\ UNCHANGED <<mesafe_matrisi, partial, current, penalties, best, held,
                   clock, steps, err, run, prev, mvars, optima>>

Finished == pc \in {"returned", "raised", "crashed"}

\* tsp_coz is called again with the same matrix
SolveAgain ==
    /\ Finished
    /\ run = 1
    /\ run' = 2
    /\ prev' = [rota |-> rota, toplam |-> toplam_mesafe, pc |-> pc, steps |-> steps]
    /\ pc' = "call"
    /\ partial' = <<>>
    /\ current' = <<>>
    /\ best' = <<>>
    /\ held' = {}
    /\ solution' = <<>>
    /\ rota' = <<>>
    /\ toplam_mesafe' = 0
    /\ err' = "none"
    /\ UNCHANGED <<mesafe_matrisi, penalties, clock, steps, mvars, optima>>

MatrixIdle ==
    /\ koordinatlar = <<>>
    /\ matris = <<>>
    /\ mpc = "idle"
    /\ merr = "none"

SolverFresh ==
    /\ partial = <<>>
    /\ current = <<>>
    /\ penalties = <<>>
    /\ best = <<>>
    /\ held = {}
    /\ clock = 0
    /\ steps = 0
    /\ solution = <<>>
    /\ rota = <<>>
    /\ toplam_mesafe = 0
    /\ err = "none"
    /\ run = 1
    /\ prev = NoOutcome

Init ==
    /\ MatrixIdle
    /\ \E n \in 0..MaxN : \E f \in [NodePairs(n) -> CostValues] :
           mesafe_matrisi = MatrixOf(n, f)
    /\ pc = "call"
    /\ SolverFresh
    /\ optima = <<>>

Solve ==
    \/ TspCozBegin
    \/ Tick
    \/ ConstructStep
    \/ FirstSolution
    \/ ImproveMove
    \/ Penalize
    \/ RaiseNoSolution
    \/ ReturnRota

Next == Solve

Spec == Init /\ [][Next]_vars

NextTwice == Solve \/ SolveAgain

SpecTwice == Init /\ [][NextTwice]_vars

MatrixInit ==
    /\ koordinatlar \in CoordLists
    /\ matris = <<>>
    /\ mpc = "call"
    /\ merr = "none"
    /\ mesafe_matrisi = <<>>
    /\ pc = "idle"
    /\ SolverFresh
    /\ optima = <<>>

MatrixNext == MesafeMatrisiOlustur

SpecMatrix == MatrixInit /\ [][MatrixNext]_vars

----------------------------------------------------------------------------
(* Optimal tours: the cheapest of all routes tsp_coz can return *)

MonoMaxCost == 3    \* arc costs 1..MonoMaxCost of the instances compared

\* every order of the nodes 1..n-1 behind the depot
Tours(n) ==
    {[k \in 1..n |-> IF k = 1 THEN 0 ELSE p[k - 1]] : p \in Permutations(1..(n - 1))}

Min(S) == CHOOSE x \in S : \A y \in S : x <= y

OptCost(M) == Min({TourCost(M, t) : t \in Tours(Size(M))})

\* the instance without its last point
WithoutLast(M) ==
    LET n == Size(M)
    IN [i \in 0..(n - 2) |-> [j \in 0..(n - 2) |-> M[i][j]]]

\* going through the last point is never cheaper than the direct arc
DetourNotShorter(M) ==
    LET p == Size(M) - 1
    IN \A a, b \in (DOMAIN M) \ {p} : M[a][b] <= M[a][p] + M[p][b]

MonoInit ==
    /\ MatrixIdle
    /\ \E n \in 2..MaxN : \E f \in [NodePairs(n) -> 1..MonoMaxCost] :
           mesafe_matrisi = MatrixOf(n, f)
    /\ pc = "idle"
    /\ SolverFresh
    /\ optima = <<>>

CompareOptima ==
    /\ pc = "idle"
    /\ mpc = "idle"
    /\ optima = <<>>
    /\ optima' = <<OptCost(WithoutLast(mesafe_matrisi)), OptCost(mesafe_matrisi)>>
    /\ UNCHANGED <<mvars, svars>>

SpecMono == MonoInit /\ [][CompareOptima]_vars

----------------------------------------------------------------------------
(* Properties *)

N == Size(mesafe_matrisi)

\* Sum of the matrix entries along a route, leg by leg
RouteSum(M, r) ==
    SumSeq([k \in 1..(Len(r) - 1) |-> M[r[k]][r[k + 1]]])

ValidTour(n, r) ==
    /\ Len(r) = n + 1
    /\ r[1] = 0
    /\ r[n + 1] = 0
    /\ {r[k] : k \in 2..n} = 1..(n - 1)

\* C1: for N >= 1 a successful tsp_coz returns a route of length N+1 that
\* starts and ends at the depot 0 and whose interior is a permutation of the
\* other N-1 nodes.
C1_TourShape ==
    (pc = "returned" /\ N >= 1) => ValidTour(N, rota)

C1_Witness ==
    pc = "returned" /\ N >= 3 /\ ValidTour(N, rota)

\* C2: the returned total equals the sum of the matrix entries along the
\* returned route; the search penalties are no part of it.
C2_CostIsRouteSum ==
    pc = "returned" => toplam_mesafe = RouteSum(mesafe_matrisi, rota)

C2_Witness ==
    /\ pc = "returned"
    /\ toplam_mesafe > 0
    /\ \E i \in DOMAIN solution : penalties[<<i, solution[i]>>] > 0

\* C3: the returned route is the cheapest, by true cost, of all tours the
\* search has been at, also when the tour it is at when the limit is reached
\* costs more.
C3_BestReturned ==
    pc = "returned" =>
        /\ \A t \in held : toplam_mesafe <= TourCost(mesafe_matrisi, t)
        /\ \E t \in held : rota = Append(t, 0)

C3_Witness ==
    /\ pc = "returned"
    /\ TourCost(mesafe_matrisi, current) > toplam_mesafe
    /\ rota # Append(current, 0)



\* C4 (as claimed): a solve whose limit is reached before any tour exists
\* ends with the explicit error and no route, a solve that has a tour ends
\* with a valid route and no error, and every call ends in one of the two.
C4_TourOrError ==
    Finished =>
        /\ held = {} => (pc = "raised" /\ err = "RuntimeError" /\ rota = <<>>)
        /\ held # {} => (pc = "returned" /\ err = "none" /\ ValidTour(N, rota))
        /\ pc \in {"returned", "raised"}

\* C4 holds of every call with at least one point.
C4_HoldsWithPoints ==
    (Finished /\ N >= 1) =>
        /\ held = {} => (pc = "raised" /\ err = "RuntimeError" /\ rota = <<>>)
        /\ held # {} => (pc = "returned" /\ err = "none" /\ ValidTour(N, rota))

\* C5 (as claimed): with no points tsp_coz fails with an explicit error and
\* returns no route; with N >= 1 its only error is the one of the time limit.
C5_EmptyIsInfeasible ==
    Finished =>
        /\ N = 0 => (pc = "raised" /\ err = "RuntimeError" /\ rota = <<>>)
        /\ (N >= 1 /\ pc # "returned") =>
               (pc = "raised" /\ clock >= TimeLimit /\ held = {})

SameOutcome ==
    /\ pc = prev.pc
    /\ rota = prev.rota
    /\ toplam_mesafe = prev.toplam

\* C9 (as claimed): two calls of tsp_coz on the same matrix end with the same
\* route and the same total.
C9_SameResult ==
    (run = 2 /\ Finished) => SameOutcome

\* C9 (amended): two calls on the same matrix whose time limit is reached
\* after the same number of search steps end with the same route and the
\* same total; the second call starts without the penalties of the first.
C9_SameResultSameSteps ==
    (run = 2 /\ Finished /\ steps = prev.steps) => SameOutcome

C9_Witness ==
    /\ run = 2
    /\ pc = "returned"
    /\ steps = prev.steps
    /\ N >= 4
    /\ \E a \in DOMAIN penalties : penalties[a] > 0

HasNonFinite(koord) ==
    \E i \in 1..Len(koord) : ~IsFinite(koord[i][1]) \/ ~IsFinite(koord[i][2])

\* C6 (as claimed): a coordinate list with a non-finite latitude or longitude
\* is rejected with an error and no matrix; no returned matrix has a
\* negative entry.
C6_NonFiniteRejected ==
    mpc \in {"returned", "raised"} =>
        /\ HasNonFinite(koordinatlar) => (mpc = "raised" /\ merr # "none" /\ matris = <<>>)
        /\ mpc = "returned" =>
              \A i, j \in 1..Len(matris) : matris[i][j] >= 0

\* C7: the matrix built from finite coordinates is symmetric.
C7_Symmetric ==
    (mpc = "returned" /\ ~HasNonFinite(koordinatlar)) =>
        \A i, j \in 1..Len(matris) : matris[i][j] = matris[j][i]

C7_Witness ==
    /\ mpc = "returned"
    /\ ~HasNonFinite(koordinatlar)
    /\ Len(matris) = 2
    /\ koordinatlar[1][2] # Fin(0)
    /\ matris[1][2] > 0
    /\ matris[2][1] = matris[1][2]

PairwiseDistinct(koord) ==
    \A i, j \in 1..Len(koord) : i # j => koord[i] # koord[j]

\* C8 (as claimed): from pairwise distinct points every off-diagonal entry is
\* strictly positive and the diagonal is 0.
C8_OffDiagonalPositive ==
    (mpc = "returned" /\ ~HasNonFinite(koordinatlar) /\ PairwiseDistinct(koordinatlar)) =>
        \A i, j \in 1..Len(matris) :
            IF i = j THEN matris[i][j] = 0 ELSE matris[i][j] > 0

\* road distance of two points before the conversion to an integer, 1e-5 km
RoadLength(koord, i, j) == karayolu_mesafesi(haversine(koord[i], koord[j])).v

\* C8 (amended): the diagonal is 0 and every off-diagonal entry is a
\* non-negative integer, strictly positive exactly when the road distance of
\* the two points is at least one metre.
C8_PositiveFromOneMetre ==
    (mpc = "returned" /\ ~HasNonFinite(koordinatlar)) =>
        \A i, j \in 1..Len(matris) :
            IF i = j THEN matris[i][j] = 0
            ELSE /\ matris[i][j] >= 0
                 /\ matris[i][j] > 0 <=> RoadLength(koordinatlar, i, j) >= 100

C8_Witness ==
    /\ mpc = "returned"
    /\ ~HasNonFinite(koordinatlar)
    /\ PairwiseDistinct(koordinatlar)
    /\ Len(matris) = 2
    /\ matris[1][2] = 0
    /\ RoadLength(koordinatlar, 1, 2) > 0

\* C10 (as claimed): appending a point with strictly positive costs never
\* lowers the cost of the optimal tour.
C10_Monotone ==
    optima # <<>> => optima[2] >= optima[1]

\* C10 (amended): appending a point with strictly positive costs never lowers
\* the cost of the optimal tour, provided no arc between two existing points
\* costs more than the detour through the appended point.
C10_MonotoneMetric ==
    (optima # <<>> /\ DetourNotShorter(mesafe_matrisi)) => optima[2] >= optima[1]

C10_Witness ==
    /\ optima # <<>>
    /\ DetourNotShorter(mesafe_matrisi)
    /\ N >= 3
    /\ optima[2] > optima[1]

----------------------------------------------------------------------------
(* Termination *)

\* tsp_coz runs sequentially and the wall clock advances whatever the search
\* does: a call, a tick, and the return or raise that follows the limit are
\* taken once they stay possible.
Fairness ==
    /\ WF_vars(TspCozBegin)
    /\ WF_vars(Tick)
    /\ WF_vars(RaiseNoSolution)
    /\ WF_vars(ReturnRota)

SpecFair == Init /\ [][Next]_vars /\ Fairness

SearchStep == steps' # steps \/ current' # current \/ penalties' # penalties

\* a scan of the whole neighbourhood finds no improving move, and no penalty
\* has been adjusted at all
LocalOptimumUnpenalized ==
    /\ pc = "improve"
    /\ Improving(mesafe_matrisi, penalties, current) = {}
    /\ \A a \in DOMAIN penalties : penalties[a] = 0

\* every accepted move strictly lowers the penalized cost
MovesStrictlyImprove ==
    (pc = "improve" /\ current' # current) =>
        PenalizedValue(mesafe_matrisi, penalties, NextVars(current'))
            < PenalizedValue(mesafe_matrisi, penalties, NextVars(current))

\* no search step is taken once the limit is reached
NothingPastBudget == clock >= TimeLimit => ~SearchStep

====
